---------------------------- MODULE Spec2Model ----------------------------
(***************************************************************************)
(* Model of RequestQueueManager (simple-board/src/lib/supabase.ts), the    *)
(* request queue that every mutating backend call goes through.            *)
(*                                                                         *)
(* The browser event loop is single threaded and runs every callback to    *)
(* completion, so each action below is one whole callback:                 *)
(*   Submit       a call of enqueue(), including the processQueue() it     *)
(*                makes up to that call's first await;                     *)
(*   Complete     the continuation of processQueue() after                 *)
(*                `await request.operation()` (resolve/reject + finally);  *)
(*   AdmitTick    a callback of setTimeout(() => this.processQueue(), 0);  *)
(*   TimeoutFire  the callback of the REQUEST_TIMEOUT timer of a request;  *)
(*   AdvanceClock the passage of time.                                     *)
(*                                                                         *)
(* A request id is `${type}_${Date.now()}_${random}` in the source; the    *)
(* model takes ids to be unique and numbers the requests 1, 2, ... in      *)
(* submission order.  The `type` tag is only part of that id string and    *)
(* is not modelled.  A timer handle is identified with the id of the       *)
(* request it was created for.                                             *)
(***************************************************************************)
EXTENDS Naturals, Sequences, FiniteSets

\* ------------------------------------------------------------------ bounds
\* Number of enqueue() calls explored by Spec.
MaxOps == 5
\* MAX_CONCURRENT as used by Spec (the source sets 3; scaled down so that
\* MaxOps submissions saturate both the in-flight slots and the queue).
ConcurrencyCap == 2
\* MAX_QUEUE_SIZE as used by Spec (the source sets 1000; scaled down).
QueueCap == 2
\* REQUEST_TIMEOUT as used by Spec, in clock steps (the source sets 30000 ms).
TimeoutSteps == 1
\* Last clock value explored.
MaxTime == 1

VARIABLES
    queue,            \* RequestQueueManager.queue: sequence of [id, timestamp]
    processing,       \* RequestQueueManager.processing
    MAX_CONCURRENT,   \* readonly field
    MAX_QUEUE_SIZE,   \* readonly field
    REQUEST_TIMEOUT,  \* readonly field
    timers,           \* armed window.setTimeout timers of requests: id -> deadline
    ticks,            \* pending setTimeout(() => processQueue(), 0) callbacks
    running,          \* requests whose processQueue() is suspended at the await
    now,              \* Date.now()
    nextId,           \* number of enqueue() calls so far, plus one
    submittedAt,      \* history: timestamp given to each request
    settles,          \* history: per request, the resolve/reject calls made
    calls,            \* history: per request, number of operation() calls
    produced,         \* history: per request, what operation() produced
    startOrder,       \* history: ids in the order operation() was called
    status,           \* <<what getQueueStatus() returns in this step>>, or <<>>
    like              \* one call of _internalLikeContentItem, the like row
                      \* of (contentItemId, userIdentifier) and the button:
                      \*   pc          where the call stands
                      \*   retryCount  the local variable of the call
                      \*   liked       the row exists in user_likes
                      \*   added       history: this call inserted the row
                      \*   rpcCalls    history: add_like calls of this call
                      \*   result      what the call returned or threw
                      \*   isLiked     LikeButton's isLiked state

vars == <<queue, processing, MAX_CONCURRENT, MAX_QUEUE_SIZE, REQUEST_TIMEOUT,
          timers, ticks, running, now, nextId, submittedAt, settles, calls,
          produced, startOrder, status, like>>

config == <<MAX_CONCURRENT, MAX_QUEUE_SIZE, REQUEST_TIMEOUT>>

\* The state of the request queue manager, with its history.
managerVars == <<queue, processing, MAX_CONCURRENT, MAX_QUEUE_SIZE,
                 REQUEST_TIMEOUT, timers, ticks, running, now, nextId,
                 submittedAt, settles, calls, produced, startOrder>>

\* No getQueueStatus() result in this step.
NoStatus == <<>>

\* No call of _internalLikeContentItem is under way.
LikeIdle ==
    [pc |-> "idle", retryCount |-> 0, liked |-> FALSE, added |-> FALSE,
     rpcCalls |-> 0, result |-> "none", isLiked |-> FALSE]

\* A step of the manager returns no status and is no step of a like call.
ManagerStepOnly == status' = NoStatus /\ UNCHANGED like

\* ------------------------------------------------------------- data types
QueuedRequest(id, timestamp) == [id |-> id, timestamp |-> timestamp]

Resolve(v) == <<"resolve", v>>
Reject(e) == <<"reject", e>>
QueueOverflow == Reject("QueueOverflow")
Timeout == Reject("Timeout")

\* What a call of operation() can do: return a promise that fulfils with a
\* value, return a promise that rejects with an error, or throw at once.
AsyncOutcomes == {"value", "error"}

\* ---------------------------------------------------------------- helpers
\* Array.prototype.findIndex, given the set `hits` of the (1-based) indices
\* whose element passes the test: the first of them, 0 for the source's -1.
FindIndex(hits) ==
    IF hits = {} THEN 0 ELSE CHOOSE i \in hits : \A j \in hits : i <= j

\* q.splice(i, 0, e)
SpliceIn(q, i, e) == SubSeq(q, 1, i - 1) \o <<e>> \o SubSeq(q, i, Len(q))

\* q.splice(i, 1)
SpliceOut(q, i) == SubSeq(q, 1, i - 1) \o SubSeq(q, i + 1, Len(q))

\* window.clearTimeout(handle)
ClearTimeout(tm, id) == [h \in (DOMAIN tm) \ {id} |-> tm[h]]

\* Variant: the timer is armed one tick late.
SetTimeoutLate(tm, id, deadline) ==
    [h \in (DOMAIN tm) \cup {id} |-> IF h = id THEN deadline + 1 ELSE tm[h]]

\* window.setTimeout(callback, delay)
SetTimeout(tm, id, deadline) ==
    [h \in (DOMAIN tm) \cup {id} |-> IF h = id THEN deadline ELSE tm[h]]

\* request.resolve(...) / request.reject(...)
Settle(stl, id, how) == [stl EXCEPT ![id] = Append(@, how)]


\* ------------------------------------------------- pieces of the handlers
\* Variant: the overflow test lets the list grow one past the ceiling.
QueueIsFullOffByOne(q) == Len(q) > MAX_QUEUE_SIZE

\* enqueue: `this.queue.length >= this.MAX_QUEUE_SIZE`
QueueIsFull(q) == Len(q) >= MAX_QUEUE_SIZE

\* Variant: the timer of the evicted request is left armed.
EvictedTimersKept(tm, id) == tm

\* enqueue: `if (removed.timeout) window.clearTimeout(removed.timeout)`
EvictedTimers(tm, id) == ClearTimeout(tm, id)

\* Variant: a new request goes before the requests with its own timestamp.
InsertIndexBeforeEqual(q, timestamp) ==
    FindIndex({i \in 1..Len(q) : q[i].timestamp >= timestamp})

\* enqueue: `this.queue.findIndex(req => req.timestamp > timestamp)`
InsertIndex(q, timestamp) ==
    FindIndex({i \in 1..Len(q) : q[i].timestamp > timestamp})

\* Variant: the new request is put at the front of the list.
InsertedAtFront(q, request) == <<request>> \o q

\* enqueue: push when findIndex gave -1, splice(insertIndex, 0, ...) otherwise
Inserted(q, request) ==
    LET insertIndex == InsertIndex(q, request.timestamp)
    IN  IF insertIndex = 0 THEN Append(q, request)
        ELSE SpliceIn(q, insertIndex, request)

\* Variant: the head of the list is removed instead of the request found.
RemoveFromQueueHead(q, id) ==
    LET index == FindIndex({i \in 1..Len(q) : q[i].id = id})
    IN  IF index # 0 THEN Tail(q) ELSE q

\* Variant: the timed-out request is left in the list.
RemoveFromQueueNoSplice(q, id) == q

\* removeFromQueue: findIndex by id, splice(index, 1) when found
RemoveFromQueue(q, id) ==
    LET index == FindIndex({i \in 1..Len(q) : q[i].id = id})
    IN  IF index # 0 THEN SpliceOut(q, index) ELSE q

\* Variant: nothing is admitted while anything is in flight.
CannotAdmitWhenBusy(q, p) == p >= 1 \/ Len(q) = 0

\* Variant: admission goes on while processing equals the ceiling.
CannotAdmitOffByOne(q, p) == p > MAX_CONCURRENT \/ Len(q) = 0

\* processQueue: the early return
\* `this.processing >= this.MAX_CONCURRENT || this.queue.length === 0`
CannotAdmit(q, p) == p >= MAX_CONCURRENT \/ Len(q) = 0

\* Variant: the head of the list is read but not taken out.
AfterShiftPeeked(q) == q

\* processQueue: `const request = this.queue.shift()`
AfterShift(q) == Tail(q)

\* Variant: the timer of the admitted request is left armed.
AdmittedTimersKept(tm, id) == tm

\* processQueue: `if (request.timeout) window.clearTimeout(request.timeout)`
AdmittedTimers(tm, id) == ClearTimeout(tm, id)

\* Variant: the catch block swallows the error and resolves with nothing.
DeliveredSwallowed(outcome) ==
    IF outcome = "value" THEN Resolve(outcome) ELSE Resolve("undefined")

\* processQueue: `request.resolve(result)` in the try block,
\* `request.reject(error)` in the catch block
Delivered(outcome) ==
    IF outcome = "value" THEN Resolve(outcome) ELSE Reject(outcome)

\* Variant: the finally block leaves the counter as it is.
ReleasedNot(p) == p

\* processQueue, finally: `this.processing--`
Released(p) == p - 1

\* Variant: a completion does not schedule the next admission.
NotRescheduled(tk) == tk

\* processQueue, finally: `setTimeout(() => this.processQueue(), 0)`
Rescheduled(tk) == tk + 1

\* ----------------------------------------------------------- processQueue
\* One call of processQueue() up to its first suspension, from the state
\* (q, tm, stl, cl, pr, tk) its caller has produced so far.  `throws` tells
\* whether request.operation() throws synchronously instead of returning a
\* promise; then catch and finally run in the same step.
ProcessQueue(q, tm, stl, cl, pr, tk, throws) ==
    IF CannotAdmit(q, processing)
    THEN /\ queue' = q
         /\ timers' = tm
         /\ settles' = stl
         /\ calls' = cl
         /\ produced' = pr
         /\ ticks' = tk
         /\ UNCHANGED <<processing, running, startOrder>>
    ELSE LET request == Head(q)
         IN  /\ queue' = AfterShift(q)
             /\ timers' = AdmittedTimers(tm, request.id)
             /\ calls' = [cl EXCEPT ![request.id] = @ + 1]
             /\ startOrder' = Append(startOrder, request.id)
             /\ IF throws
                THEN /\ produced' = [pr EXCEPT ![request.id] = "thrown"]
                     /\ settles' = Settle(stl, request.id, Delivered("thrown"))
                     /\ processing' = Released(processing + 1)
                     /\ ticks' = Rescheduled(tk)
                     /\ running' = running
                ELSE /\ produced' = pr
                     /\ settles' = stl
                     /\ processing' = processing + 1
                     /\ ticks' = tk
                     /\ running' = running \cup {request.id}

\* Variant of enqueue: a submission that finds the list full is itself
\* rejected with QueueOverflow and nothing is evicted.
EnqueueRejectsNewWhenFull(throws) ==
    LET id == nextId
        timestamp == now
        full == QueueIsFull(queue)
        stl0 == Append(settles, <<>>)
        stl1 == IF full THEN Settle(stl0, id, QueueOverflow) ELSE stl0
        tm1 == IF full THEN timers
               ELSE SetTimeout(timers, id, timestamp + REQUEST_TIMEOUT)
        q1 == IF full THEN queue
              ELSE Inserted(queue, QueuedRequest(id, timestamp))
    IN  /\ nextId' = nextId + 1
        /\ submittedAt' = Append(submittedAt, timestamp)
        /\ ProcessQueue(q1, tm1, stl1, Append(calls, 0),
                        Append(produced, "none"), ticks, throws)
        /\ UNCHANGED <<now, config>>
        /\ ManagerStepOnly

\* ---------------------------------------------------------------- enqueue
\* One call of enqueue(type, operation): the promise executor, which runs
\* synchronously, ending with its call of processQueue().
Enqueue(throws) ==
    LET id == nextId
        timestamp == now
        evict == QueueIsFull(queue) /\ queue # <<>>
        removed == Head(queue)
        q1 == IF evict THEN Tail(queue) ELSE queue
        tm1 == IF evict THEN EvictedTimers(timers, removed.id) ELSE timers
        stl0 == Append(settles, <<>>)
        stl1 == IF evict THEN Settle(stl0, removed.id, QueueOverflow) ELSE stl0
        tm2 == SetTimeout(tm1, id, timestamp + REQUEST_TIMEOUT)
        q2 == Inserted(q1, QueuedRequest(id, timestamp))
    IN  /\ nextId' = nextId + 1
        /\ submittedAt' = Append(submittedAt, timestamp)
        /\ ProcessQueue(q2, tm2, stl1, Append(calls, 0),
                        Append(produced, "none"), ticks, throws)
        /\ UNCHANGED <<now, config>>
        /\ ManagerStepOnly

\* ---------------------------------------------------------------- actions
Submit ==
    /\ nextId <= MaxOps
    /\ \E throws \in BOOLEAN : Enqueue(throws)

\* The promise of request.operation() settles: the rest of processQueue().
Complete(id, outcome) ==
    /\ id \in running
    /\ running' = running \ {id}
    /\ produced' = [produced EXCEPT ![id] = outcome]
    /\ settles' = Settle(settles, id, Delivered(outcome))
    /\ processing' = Released(processing)
    /\ ticks' = Rescheduled(ticks)
    /\ UNCHANGED <<queue, timers, now, nextId, submittedAt, calls,
                   startOrder, config>>
    /\ ManagerStepOnly

\* A deferred `() => this.processQueue()` callback runs.
DeferredProcessQueue(throws) ==
    /\ ticks > 0
    /\ ProcessQueue(queue, timers, settles, calls, produced, ticks - 1, throws)
    /\ UNCHANGED <<now, nextId, submittedAt, config>>
    /\ ManagerStepOnly

AdmitTick == \E throws \in BOOLEAN : DeferredProcessQueue(throws)

\* The callback handed to setTimeout in enqueue():
\* `this.removeFromQueue(requestId); reject(new Error('Request timeout'))`.
TimeoutCallback(id) ==
    /\ id \in DOMAIN timers
    /\ queue' = RemoveFromQueue(queue, id)
    /\ timers' = ClearTimeout(timers, id)
    /\ settles' = Settle(settles, id, Timeout)
    /\ UNCHANGED <<processing, ticks, running, now, nextId, submittedAt,
                   calls, produced, startOrder, config>>
    /\ ManagerStepOnly

\* The REQUEST_TIMEOUT timer of request `id` fires, not before its deadline.
TimeoutFire(id) ==
    /\ id \in DOMAIN timers
    /\ now >= timers[id]
    /\ TimeoutCallback(id)

AdvanceClock ==
    /\ now < MaxTime
    /\ now' = now + 1
    /\ UNCHANGED <<queue, processing, timers, ticks, running, nextId,
                   submittedAt, settles, calls, produced, startOrder, config>>
    /\ ManagerStepOnly

\* ---------------------------------------------------------- specification
\* The state after `new RequestQueueManager()`.
Constructed ==
    /\ queue = <<>>
    /\ processing = 0
    /\ timers = <<>>
    /\ ticks = 0
    /\ running = {}
    /\ now = 0
    /\ nextId = 1
    /\ submittedAt = <<>>
    /\ settles = <<>>
    /\ calls = <<>>
    /\ produced = <<>>
    /\ startOrder = <<>>
    /\ status = NoStatus

Init ==
    /\ Constructed
    /\ like = LikeIdle
    /\ MAX_CONCURRENT = ConcurrencyCap
    /\ MAX_QUEUE_SIZE = QueueCap
    /\ REQUEST_TIMEOUT = TimeoutSteps

Next ==
    \/ Submit
    \/ \E id \in running, outcome \in AsyncOutcomes : Complete(id, outcome)
    \/ AdmitTick
    \/ \E id \in DOMAIN timers : TimeoutFire(id)
    \/ AdvanceClock

Spec == Init /\ [][Next]_vars

\* The event loop runs every callback it has been handed: a deferred
\* processQueue() callback that is pending is eventually run, and (the
\* assumption of the drain property) the promise of every started operation
\* eventually settles, which runs the rest of processQueue().  Nothing is
\* assumed of the REQUEST_TIMEOUT timers or of further submissions.
FairSpec ==
    /\ Spec
    /\ WF_vars(AdmitTick)
    /\ WF_vars(\E id \in running, outcome \in AsyncOutcomes : Complete(id, outcome))

\* ------------------------------------------------------ the burst scenario
\* A manager with MAX_CONCURRENT = 3 and MAX_QUEUE_SIZE = 5 receives ten
\* enqueue() calls back to back, in one synchronous run of the caller, so no
\* completion, deferred callback or timer callback runs between them (the
\* clock may advance).  Every operation returns a promise that fulfils.
BurstIds == 1..10

InBurst == nextId \in BurstIds

BurstInit ==
    /\ Constructed
    /\ like = LikeIdle
    /\ MAX_CONCURRENT = 3
    /\ MAX_QUEUE_SIZE = 5
    /\ REQUEST_TIMEOUT = TimeoutSteps

BurstSubmit == InBurst /\ Enqueue(FALSE)

BurstComplete(id) == ~InBurst /\ Complete(id, "value")

BurstAdmitTick == ~InBurst /\ DeferredProcessQueue(FALSE)

BurstTimeoutFire(id) == ~InBurst /\ TimeoutFire(id)

BurstNext ==
    \/ BurstSubmit
    \/ \E id \in running : BurstComplete(id)
    \/ BurstAdmitTick
    \/ \E id \in DOMAIN timers : BurstTimeoutFire(id)
    \/ AdvanceClock

SpecBurst == BurstInit /\ [][BurstNext]_vars

\* ------------------------------------------------- the wall clock is reset
\* Date.now() is the wall clock: it can be set to any value between two
\* callbacks, backwards included.  The timers of setTimeout() do not run on
\* it, so an armed timer can fire at any reading of the wall clock.  Every
\* operation returns a promise that fulfils.
SetClock ==
    /\ \E t \in 0..MaxTime : t # now /\ now' = t
    /\ UNCHANGED <<queue, processing, timers, ticks, running, nextId,
                   submittedAt, settles, calls, produced, startOrder, config>>
    /\ ManagerStepOnly

SkewSubmit == nextId <= MaxOps /\ Enqueue(FALSE)

SkewNext ==
    \/ SkewSubmit
    \/ \E id \in running : Complete(id, "value")
    \/ DeferredProcessQueue(FALSE)
    \/ \E id \in DOMAIN timers : TimeoutCallback(id)
    \/ SetClock

SpecSkew == Init /\ [][SkewNext]_vars

\* -------------------------------------------- timers fire at their deadline
\* Time in discrete ticks, and a timer that is due fires before the clock
\* moves on: the clock advances only when no armed timer has reached its
\* deadline.  The clock runs REQUEST_TIMEOUT past the last submission time,
\* so that the deadline of every request submitted up to MaxTime is reached.
\* Every operation returns a promise, which fulfils if it ever settles.
TimerDue(id) == id \in DOMAIN timers /\ now >= timers[id]

UrgentAdvanceClock ==
    /\ now < MaxTime + REQUEST_TIMEOUT
    /\ \A id \in DOMAIN timers : ~TimerDue(id)
    /\ now' = now + 1
    /\ UNCHANGED <<queue, processing, timers, ticks, running, nextId,
                   submittedAt, settles, calls, produced, startOrder, config>>
    /\ ManagerStepOnly

UrgentSubmit == nextId <= MaxOps /\ Enqueue(FALSE)

UrgentNext ==
    \/ UrgentSubmit
    \/ \E id \in running : Complete(id, "value")
    \/ DeferredProcessQueue(FALSE)
    \/ \E id \in DOMAIN timers : TimeoutFire(id)
    \/ UrgentAdvanceClock

SpecUrgent == Init /\ [][UrgentNext]_vars

\* ------------------------------------------------------------- getStatus
\* Variant: the two counters are reported in each other's place.
GetStatusMixedUp ==
    [queueSize |-> processing,
     processing |-> Len(queue),
     maxConcurrent |-> MAX_CONCURRENT,
     maxQueueSize |-> MAX_QUEUE_SIZE]

\* RequestQueueManager.getStatus()
GetStatus ==
    [queueSize |-> Len(queue),
     processing |-> processing,
     maxConcurrent |-> MAX_CONCURRENT,
     maxQueueSize |-> MAX_QUEUE_SIZE]

\* A call of getQueueStatus(), by the page or by the development monitor.
GetQueueStatus ==
    /\ status' = <<GetStatus>>
    /\ UNCHANGED <<managerVars, like>>

NextWithStatus ==
    \/ Next
    \/ GetQueueStatus

\* The manager with callers of getQueueStatus().
SpecStatus == Init /\ [][NextWithStatus]_vars

\* -------------------------------------------------------- likeContentItem
\* One click on a LikeButton that shows "not liked", the call of
\* likeContentItem() it makes, and the user_likes row of the pair
\* (contentItemId, userIdentifier), which other sessions of the same user
\* can insert and delete in the meantime.  The request queue hands the
\* promise of the operation through unchanged and takes no step here.

\* `const maxRetries = 3`
maxRetries == 3

\* What checkIfLiked() can return: whether the row exists, or false when
\* the query fails or throws.
CheckIfLiked(l) == {l.liked, FALSE}

\* What supabase.rpc('add_like') can answer: no error, an error that is a
\* duplicate-key error (the row exists), or any other error.
AddLikeOutcomes(l) ==
    {"ok", "error"} \cup (IF l.liked THEN {"duplicate"} ELSE {})

\* What the select on content_items_with_likes can answer.
FetchOutcomes == {"ok", "error"}

\* A step of the like call or of the like row: the manager stands still.
LikeStep(l) == like' = l /\ UNCHANGED <<managerVars, status>>

\* `return null`, `return updatedItem`, `throw error` out of the function
Returned(l, r) == [l EXCEPT !.pc = "done", !.result = r]

\* Variant: the catch block rethrows only once retryCount exceeds maxRetries.
CaughtOffByOne(l) ==
    LET n == l.retryCount + 1
    IN  IF n > maxRetries
        THEN Returned([l EXCEPT !.retryCount = n], "error")
        ELSE [l EXCEPT !.retryCount = n, !.pc = "delay"]

\* The catch block of the retry loop: `retryCount++`, then rethrow at
\* maxRetries or wait before the next round.
Caught(l) ==
    LET n == l.retryCount + 1
    IN  IF n >= maxRetries
        THEN Returned([l EXCEPT !.retryCount = n], "error")
        ELSE [l EXCEPT !.retryCount = n, !.pc = "delay"]

\* handleLikeClick with !isLiked: `await likeContentItem(...)` starts the call.
HandleLikeClick ==
    /\ like.pc = "idle"
    /\ ~like.isLiked
    /\ LikeStep([like EXCEPT !.pc = "alreadyLiked"])

\* `const alreadyLiked = await checkIfLiked(...)`, `let retryCount = 0`
AlreadyLikedCheck ==
    /\ like.pc = "alreadyLiked"
    /\ \E alreadyLiked \in CheckIfLiked(like) :
          LikeStep(IF alreadyLiked
                   THEN Returned(like, "null")
                   ELSE [like EXCEPT !.pc = "doubleCheck", !.retryCount = 0])

\* In the loop: `const doubleCheck = await checkIfLiked(...)`
DoubleCheck ==
    /\ like.pc = "doubleCheck"
    /\ \E doubleCheck \in CheckIfLiked(like) :
          LikeStep(IF doubleCheck
                   THEN Returned(like, "null")
                   ELSE [like EXCEPT !.pc = "rpc"])

\* `await supabase.rpc('add_like', ...)` and the test of its error
AddLike ==
    /\ like.pc = "rpc"
    /\ \E outcome \in AddLikeOutcomes(like) :
          LET called == [like EXCEPT !.rpcCalls = @ + 1]
          IN  LikeStep(CASE outcome = "ok" ->
                                [called EXCEPT !.pc = "fetch",
                                               !.liked = TRUE,
                                               !.added = @ \/ ~like.liked]
                         [] outcome = "duplicate" -> Returned(called, "null")
                         [] outcome = "error" -> Caught(called))

\* The select of the updated item and the test of fetchError
FetchUpdatedItem ==
    /\ like.pc = "fetch"
    /\ \E outcome \in FetchOutcomes :
          LikeStep(IF outcome = "ok"
                   THEN Returned(like, "item")
                   ELSE Caught(like))

\* The delay before the next round ends; `retryCount < maxRetries` holds.
RetryDelay ==
    /\ like.pc = "delay"
    /\ like.retryCount < maxRetries
    /\ LikeStep([like EXCEPT !.pc = "doubleCheck"])

\* The rest of handleLikeClick: setIsLiked(true) when the result is not
\* null, and in the catch block (the button showed "not liked").
ShowResult ==
    /\ like.pc = "done"
    /\ LikeStep([like EXCEPT !.pc = "shown",
                             !.isLiked = (like.result \in {"item", "error"})])

\* Another session of the same user likes the item.
ConcurrentLike ==
    /\ ~like.liked
    /\ LikeStep([like EXCEPT !.liked = TRUE])

\* Another session of the same user takes its like back.
ConcurrentUnlike ==
    /\ like.liked
    /\ LikeStep([like EXCEPT !.liked = FALSE])

LikeInit ==
    /\ Constructed
    /\ MAX_CONCURRENT = ConcurrencyCap
    /\ MAX_QUEUE_SIZE = QueueCap
    /\ REQUEST_TIMEOUT = TimeoutSteps
    /\ \E liked \in BOOLEAN : like = [LikeIdle EXCEPT !.liked = liked]

LikeNext ==
    \/ HandleLikeClick
    \/ AlreadyLikedCheck
    \/ DoubleCheck
    \/ AddLike
    \/ FetchUpdatedItem
    \/ RetryDelay
    \/ ShowResult
    \/ ConcurrentLike
    \/ ConcurrentUnlike

SpecLike == LikeInit /\ [][LikeNext]_vars

\* A step of the call of _internalLikeContentItem itself.
LikeCallStep ==
    \/ AlreadyLikedCheck
    \/ DoubleCheck
    \/ AddLike
    \/ FetchUpdatedItem
    \/ RetryDelay

\* Every await of the call settles: the backend answers each query and RPC
\* (with a result or an error) and the retry delay elapses.  Nothing is
\* assumed of the click, of the button or of the other sessions.
FairSpecLike == SpecLike /\ WF_vars(LikeCallStep)

\* ------------------------------------------------- vocabulary of the claims
\* The requests submitted so far.
Ids == 1..(nextId - 1)

PendingIds(q) == {q[i].id : i \in 1..Len(q)}

IsStrictlyIncreasing(seq) ==
    \A i, j \in 1..Len(seq) : i < j => seq[i] < seq[j]

\* What the caller of a started request must receive for each outcome of
\* operation().
Mirrors(outcome) ==
    CASE outcome = "value" -> <<"resolve", "value">>
      [] outcome = "error" -> <<"reject", "error">>
      [] outcome = "thrown" -> <<"reject", "thrown">>

\* ----------------------------------------------------------------- claims

\* C1: in every reachable state the in-flight count `processing` lies in
\* [0, MAX_CONCURRENT].
InFlightWithinCeiling ==
    /\ processing \in Nat
    /\ processing <= MAX_CONCURRENT

\* C1 witness: all slots are taken while further requests wait.
InFlightAtCeiling ==
    /\ processing = MAX_CONCURRENT
    /\ Len(queue) > 0
    /\ ticks > 0

\* C2: every request is settled at most once, and through one path only: a
\* request settled with QueueOverflow or Timeout never ran, and a request
\* settled with the outcome of its operation ran exactly once.
SettledAtMostOnce ==
    \A id \in Ids :
        /\ Len(settles[id]) <= 1
        /\ settles[id] \in {<<QueueOverflow>>, <<Timeout>>} => calls[id] = 0
        /\ (settles[id] # <<>> /\ settles[id] \notin {<<QueueOverflow>>, <<Timeout>>})
              => calls[id] = 1 /\ id \notin running

\* C2 witness: the four terminal paths have all been taken.
AllFourPathsTaken ==
    \E a, b, c, d \in Ids :
        /\ settles[a] = <<QueueOverflow>>
        /\ settles[b] = <<Timeout>>
        /\ settles[c] = <<Resolve("value")>>
        /\ settles[d] = <<Reject("error")>>

\* C3: with a clock that never goes back, requests are started in the order
\* they were submitted (ids number the submissions), requests with equal
\* timestamps included.
StartOrderIsSubmissionOrder == IsStrictlyIncreasing(startOrder)

\* C3 witness: two requests that waited in the queue together with the same
\* timestamp have both been started, after requests with other timestamps.
EqualTimestampsStarted ==
    /\ Len(startOrder) >= 4
    /\ \E i \in 1..(Len(startOrder) - 1) :
          /\ startOrder[i] > MAX_CONCURRENT
          /\ submittedAt[startOrder[i]] = submittedAt[startOrder[i + 1]]
    /\ \E i \in 1..(Len(startOrder) - 1) :
          submittedAt[startOrder[i]] < submittedAt[startOrder[i + 1]]

\* C4: the pending list never holds more than MAX_QUEUE_SIZE entries.
QueueWithinCeiling == Len(queue) <= MAX_QUEUE_SIZE

\* C4 witness: a submit found the list full, evicted, and the list is full
\* again.
QueueFullAfterEviction ==
    /\ Len(queue) = MAX_QUEUE_SIZE
    /\ \E id \in Ids : settles[id] = <<QueueOverflow>>

\* A step that is a call of enqueue() finding MAX_QUEUE_SIZE pending entries.
OverflowingSubmit ==
    /\ nextId' = nextId + 1
    /\ Len(queue) = MAX_QUEUE_SIZE
    /\ queue # <<>>

\* The entries of q that were already submitted before the current step.
OlderEntries(q) == SelectSeq(q, LAMBDA req : req.id < nextId)

\* What C5 says of the evicted entry: exactly one entry is evicted by an
\* overflowing submit, the head of the list, which has the smallest
\* timestamp; its timer is cancelled, it is settled with QueueOverflow and
\* it has not run.
EvictsHeadOnly ==
    LET victim == Head(queue).id
    IN  /\ \A i \in 1..Len(queue) : Head(queue).timestamp <= queue[i].timestamp
        /\ victim \notin running
        /\ settles'[victim] = <<QueueOverflow>>
        /\ victim \notin DOMAIN timers'
        /\ calls'[victim] = 0
        /\ victim \notin PendingIds(queue')
        /\ \A id \in 1..nextId :
              id # victim =>
                 (QueueOverflow \notin {settles'[id][k] : k \in 1..Len(settles'[id])})
                 \/ (id < nextId /\ settles'[id] = settles[id])

\* C5 as stated: an overflowing submit evicts the head only (EvictsHeadOnly)
\* and every other pending entry stays queued in the same relative order.
EvictionLeavesOthersQueued ==
    [][OverflowingSubmit =>
          /\ EvictsHeadOnly
          /\ OlderEntries(queue') = Tail(queue)]_vars

\* C5 amended: an overflowing submit evicts the head only (EvictsHeadOnly);
\* every other pending entry stays queued in the same relative order, except
\* that when processing < MAX_CONCURRENT the admission step of that same
\* submit starts the oldest remaining entry.
EvictionLeavesOthersQueuedOrStarted ==
    [][OverflowingSubmit =>
          /\ EvictsHeadOnly
          /\ LET rest == Tail(queue) \o <<QueuedRequest(nextId, now)>>
             IN  IF processing < MAX_CONCURRENT
                 THEN /\ queue' = Tail(rest)
                      /\ startOrder' = Append(startOrder, Head(rest).id)
                 ELSE /\ queue' = rest
                      /\ startOrder' = startOrder]_vars

\* C5 witness: an overflowing submit has just evicted a request and, a slot
\* being free, started the next one, leaving the new request queued.
EvictedWithFreeSlot ==
    /\ nextId > 1
    /\ PendingIds(queue) = {nextId - 1}
    /\ startOrder # <<>>
    /\ \E victim \in Ids :
          /\ settles[victim] = <<QueueOverflow>>
          /\ startOrder[Len(startOrder)] = victim + 1
    /\ processing = MAX_CONCURRENT
    /\ ticks > 0

\* A step in which the timer of the pending request `id` fires: the timer
\* is consumed by a step that is neither an enqueue() nor an admission.
TimerFiresWhilePending(id) ==
    /\ id \in PendingIds(queue)
    /\ id \in DOMAIN timers
    /\ id \notin DOMAIN timers'
    /\ nextId' = nextId
    /\ calls' = calls

\* C6: when the timer of a pending request fires, that request leaves the
\* list and is settled with Timeout; the other entries, their order, their
\* timers, the other requests' settlements and the in-flight count stay as
\* they were.
TimeoutRemovesOnlyItsEntry ==
    [][\A id \in Ids :
          TimerFiresWhilePending(id) =>
             /\ queue' = SelectSeq(queue, LAMBDA req : req.id # id)
             /\ settles'[id] = <<Timeout>>
             /\ \A other \in Ids \ {id} : settles'[other] = settles[other]
             /\ DOMAIN timers' = (DOMAIN timers) \ {id}
             /\ \A other \in DOMAIN timers' : timers'[other] = timers[other]
             /\ processing' = processing
             /\ running' = running
             /\ ticks' = ticks]_vars

\* C6 witness: a request has timed out while an older request is still
\* pending, so the entry removed was not the head of the list.
TimedOutBehindOlderEntry ==
    \E id \in Ids :
        /\ settles[id] = <<Timeout>>
        /\ \E i \in 1..Len(queue) : queue[i].id < id

\* C7: a request that has been started has no armed timer and is never
\* settled with Timeout, however long it runs.
StartedNeverTimedOut ==
    \A id \in Ids :
        calls[id] > 0 =>
           /\ id \notin DOMAIN timers
           /\ \A k \in 1..Len(settles[id]) : settles[id][k] # Timeout

\* C7 witness: a started request is still running at or after the time its
\* timer was set for, and a request submitted that late exists too.
RunningPastDeadline ==
    \E id \in running :
        /\ now >= submittedAt[id] + REQUEST_TIMEOUT
        /\ \E later \in Ids : submittedAt[later] >= submittedAt[id] + REQUEST_TIMEOUT

\* C8: operation() is called at most once per request, exactly once for a
\* started one, and the caller of a started request is settled with the
\* outcome of that call and nothing else.
OutcomeMirrorsOperation ==
    \A id \in Ids :
        /\ calls[id] <= 1
        /\ calls[id] = 0 => produced[id] = "none"
        /\ calls[id] = 1 =>
              IF id \in running
              THEN settles[id] = <<>> /\ produced[id] = "none"
              ELSE produced[id] # "none" /\ settles[id] = <<Mirrors(produced[id])>>

\* C8 witness: started requests have ended in each of the three ways.
AllOutcomesDelivered ==
    \E a, b, c \in Ids :
        /\ produced[a] = "value" /\ settles[a] = <<Resolve("value")>>
        /\ produced[b] = "error" /\ settles[b] = <<Reject("error")>>
        /\ produced[c] = "thrown" /\ settles[c] = <<Reject("thrown")>>

\* Nothing is pending, nothing is running, every request submitted so far
\* has been settled.
Quiescent ==
    /\ queue = <<>>
    /\ processing = 0
    /\ running = {}
    /\ \A id \in Ids : Len(settles[id]) = 1

\* C9: if every started operation eventually completes and every deferred
\* admission callback eventually runs, then after the (finitely many)
\* submissions every request is settled, the pending list is empty and
\* nothing is in flight, and it stays so.
EventuallyDrained == <>[]Quiescent

\* C9 witness: more requests than MAX_CONCURRENT + MAX_QUEUE_SIZE were
\* submitted, one was evicted, and the manager has drained.
DrainedAfterOverflow ==
    /\ Quiescent
    /\ ticks = 0
    /\ nextId - 1 > MAX_CONCURRENT + MAX_QUEUE_SIZE
    /\ \E id \in Ids : settles[id] = <<QueueOverflow>>
    /\ \E id \in Ids : id > MAX_CONCURRENT /\ settles[id] = <<Resolve("value")>>

\* The requests settled with `how` so far.
SettledWith(how) == {id \in Ids : settles[id] = <<how>>}

\* The burst is over and everything has been settled.
BurstDone == ~InBurst /\ Quiescent

\* C10 as stated: of the ten requests of the burst exactly five fail with
\* QueueOverflow, the five submitted first, and the other five succeed.
FirstFiveOverflow ==
    BurstDone =>
       /\ SettledWith(QueueOverflow) = 1..5
       /\ SettledWith(Resolve("value")) = 6..10

\* C10 amended: exactly two requests of the burst fail with QueueOverflow,
\* the 4th and the 5th (the first three are started at once, the 4th to 8th
\* fill the list, the 9th and 10th each evict the oldest pending one); the
\* first three succeed, and each of the 6th to 10th succeeds unless its
\* timer fires while it is still pending.
FourthAndFifthOverflow ==
    /\ ~InBurst => SettledWith(QueueOverflow) = {4, 5}
    /\ BurstDone =>
          /\ 1..3 \subseteq SettledWith(Resolve("value"))
          /\ 6..10 \subseteq SettledWith(Resolve("value")) \cup SettledWith(Timeout)
          /\ SettledWith(Timeout) = {} => Cardinality(SettledWith(Resolve("value"))) = 8

\* C10 witness: the burst has drained without a timeout: two requests were
\* evicted and eight succeeded.
BurstDrainedWithoutTimeout ==
    /\ BurstDone
    /\ Cardinality(SettledWith(QueueOverflow)) = 2
    /\ Cardinality(SettledWith(Resolve("value"))) = 8

\* The settle calls made in this step that are a QueueOverflow rejection.
NewlyOverflowed ==
    {id \in 1..(nextId' - 1) :
        /\ settles'[id] # <<>>
        /\ settles'[id][Len(settles'[id])] = QueueOverflow
        /\ (id >= nextId \/ settles'[id] # settles[id])}

\* C11: a call of enqueue() never rejects the request it is submitting for
\* lack of room: after the step the new request is in the pending list or
\* has been started, and a QueueOverflow rejection made by the step goes to
\* an older request that was pending, never to the new one.
SubmitNeverRejectsNewcomer ==
    [][nextId' = nextId + 1 =>
          /\ nextId \in PendingIds(queue') \/ calls'[nextId] = 1
          /\ nextId \notin NewlyOverflowed
          /\ \A id \in NewlyOverflowed :
                id < nextId /\ id \in PendingIds(queue)]_vars

\* C11 witness: the newest request was submitted to a full list with all
\* slots taken; it is queued, unsettled, and an older request was evicted.
NewcomerQueuedAfterEviction ==
    /\ nextId > 1
    /\ processing = MAX_CONCURRENT
    /\ Len(queue) = MAX_QUEUE_SIZE
    /\ queue[Len(queue)].id = nextId - 1
    /\ settles[nextId - 1] = <<>>
    /\ ticks = 0
    /\ \E victim \in Ids : settles[victim] = <<QueueOverflow>>

\* C12: a step that returns a status leaves the pending list, the in-flight
\* count, the timers and everything else of the manager as they were, and
\* the status it returns gives the length of the pending list, the in-flight
\* count and the two configured ceilings of that state.
StatusIsPureSnapshot ==
    [][status' # NoStatus =>
          /\ status'[1].queueSize = Len(queue)
          /\ status'[1].processing = processing
          /\ status'[1].maxConcurrent = MAX_CONCURRENT
          /\ status'[1].maxQueueSize = MAX_QUEUE_SIZE
          /\ queue' = queue
          /\ processing' = processing
          /\ timers' = timers
          /\ ticks' = ticks
          /\ running' = running
          /\ settles' = settles
          /\ UNCHANGED <<config, now, nextId, calls>>]_vars

\* C12 witness: a status taken while requests wait and fewer run than wait
\* or more, with a deferred callback and timers outstanding.
StatusOfBusyManager ==
    /\ status # NoStatus
    /\ status[1].queueSize > 0
    /\ status[1].processing > 0
    /\ status[1].queueSize # status[1].processing
    /\ ticks > 0
    /\ DOMAIN timers # {}

\* A step that makes a call of processQueue(): a call of enqueue(), or a
\* deferred callback (which consumes a tick, or starts a request).
AdmissionInvoked ==
    \/ nextId' = nextId + 1
    \/ ticks' < ticks
    \/ startOrder' # startOrder

\* C13 as stated: right after a call of processQueue() returns, all slots
\* are taken or the pending list is empty.
AdmissionFillsCapacity ==
    [][AdmissionInvoked =>
          processing' = MAX_CONCURRENT \/ queue' = <<>>]_vars

\* C13 amended: a call of processQueue() starts one request when a slot is
\* free and the list it finds is not empty, and none otherwise; right after
\* it returns, all slots are taken, or the list is empty, or every slot
\* still free has a deferred processQueue() callback scheduled for it.
AdmissionStartsOneAtATime ==
    [][AdmissionInvoked =>
          /\ Len(startOrder') =
                Len(startOrder)
                + (IF processing < MAX_CONCURRENT
                      /\ (nextId' = nextId + 1 \/ queue # <<>>)
                   THEN 1 ELSE 0)
          /\ \/ processing' = MAX_CONCURRENT
             \/ queue' = <<>>
             \/ processing' + ticks' >= MAX_CONCURRENT]_vars

\* C13 witness: a deferred callback has started a request that is still
\* running, and a slot is free while requests wait.
SlotFreeAfterAdmission ==
    /\ startOrder # <<>>
    /\ startOrder[Len(startOrder)] > MAX_CONCURRENT
    /\ startOrder[Len(startOrder)] \in running
    /\ processing < MAX_CONCURRENT
    /\ queue # <<>>
    /\ ticks > 0

\* The number of times `id` occurs in the sequence of ids `seq`.
Occurrences(seq, id) == Cardinality({i \in 1..Len(seq) : seq[i] = id})

\* C14: operation() is called at most once per request, a request evicted
\* or timed out is not started, and the pending list holds no request that
\* has been settled or started, nor the same request twice.
NoRestartOfStartedOrSettled ==
    \A id \in Ids :
        /\ Occurrences(startOrder, id) <= 1
        /\ calls[id] = Occurrences(startOrder, id)
        /\ settles[id] \in {<<QueueOverflow>>, <<Timeout>>} =>
              Occurrences(startOrder, id) = 0
        /\ Occurrences([i \in 1..Len(queue) |-> queue[i].id], id) <= 1
        /\ id \in PendingIds(queue) =>
              /\ settles[id] = <<>>
              /\ Occurrences(startOrder, id) = 0
              /\ id \notin running

\* C14 witness: one request was evicted, one timed out, and a request
\* submitted after both was started, once.
StartsAfterEvictionAndTimeout ==
    \E evicted, timedOut \in Ids :
        /\ settles[evicted] = <<QueueOverflow>>
        /\ settles[timedOut] = <<Timeout>>
        /\ startOrder # <<>>
        /\ startOrder[Len(startOrder)] > evicted
        /\ startOrder[Len(startOrder)] > timedOut
        /\ calls[startOrder[Len(startOrder)]] = 1

\* C15: the pending list is sorted by non-decreasing timestamp in every
\* reachable state, whatever the wall clock read at each submission (it may
\* go backwards): enqueue() puts the new entry right before the first entry
\* with a strictly greater timestamp, after every entry with an equal or
\* smaller one, or last if there is none; shift(), the overflow eviction
\* and removeFromQueue() keep the order of the entries that stay.
IsSortedByTimestamp(q) ==
    \A i, j \in 1..Len(q) : i < j => q[i].timestamp <= q[j].timestamp

\* The entries of q other than `newcomer` all stand in p, in the same order.
KeepsOrderOf(q, p, newcomer) ==
    /\ \A i \in 1..Len(q) :
          q[i].id # newcomer => \E k \in 1..Len(p) : p[k] = q[i]
    /\ \A i, j \in 1..Len(q) :
          i < j /\ q[i].id # newcomer /\ q[j].id # newcomer =>
              \E k, l \in 1..Len(p) : k < l /\ p[k] = q[i] /\ p[l] = q[j]

PendingSortedUnderClockSkew ==
    [][/\ IsSortedByTimestamp(queue')
       /\ KeepsOrderOf(queue', queue, nextId)
       /\ nextId' = nextId + 1 =>
             \A i \in 1..Len(queue') :
                 queue'[i].id = nextId =>
                    /\ queue'[i].timestamp = now
                    /\ \A j \in 1..(i - 1) : queue'[j].timestamp <= now
                    /\ \A j \in (i + 1)..Len(queue') : queue'[j].timestamp > now]_vars

\* C15 witness: with the clock set back, a newcomer stands in the list
\* before an entry submitted earlier, at a later reading of the clock.
NewcomerQueuedBeforeOlder ==
    \E i, j \in 1..Len(queue) :
        /\ i < j
        /\ queue[i].id > queue[j].id
        /\ queue[i].timestamp < queue[j].timestamp

\* C16: with timers firing at their deadline, no entry stays in the pending
\* list more than REQUEST_TIMEOUT after its submission: once that time has
\* passed the request has been started, evicted with QueueOverflow or settled
\* with Timeout, whether or not the operations in flight ever complete.
QueueWaitBounded ==
    /\ \A i \in 1..Len(queue) : now <= queue[i].timestamp + REQUEST_TIMEOUT
    /\ \A id \in Ids :
          now > submittedAt[id] + REQUEST_TIMEOUT =>
              /\ id \notin PendingIds(queue)
              /\ \/ calls[id] = 1
                 \/ settles[id] = <<QueueOverflow>>
                 \/ settles[id] = <<Timeout>>

\* C16 witness: every slot is held by an operation that has not completed,
\* and the clock has passed the deadline of a request that waited behind
\* them: it was settled with Timeout.
DeadlinePassedWhileBlocked ==
    /\ processing = MAX_CONCURRENT
    /\ \A id \in Ids : calls[id] = 1 => id \in running
    /\ \E id \in Ids :
          /\ now > submittedAt[id] + REQUEST_TIMEOUT
          /\ settles[id] = <<Timeout>>

\* The requests a step starts (startOrder only grows, at its end), and those
\* whose operation it completes (an operation that throws synchronously is
\* started and completed in one step).
StartedByStep ==
    {startOrder'[i] : i \in (Len(startOrder) + 1)..Len(startOrder')}

CompletedByStep ==
    (running \ running') \cup (StartedByStep \ running')

\* C17: processing equals the number of operations started and not yet
\* completed.  Every admission adds exactly one to it, every completion
\* (fulfilled, rejected or thrown) settles the caller, takes exactly one
\* from it and schedules exactly one deferred processQueue(); a step that
\* neither starts nor completes an operation (a submission that admits
\* nothing, an eviction, a timeout) leaves it as it is.
InFlightCountsRunning ==
    [][LET started == StartedByStep
           completed == CompletedByStep
           tickRun == IF /\ ticks > 0
                         /\ nextId' = nextId
                         /\ (started # {} \/ ticks' < ticks)
                      THEN 1 ELSE 0
       IN  /\ processing = Cardinality(running)
           /\ processing' = Cardinality(running')
           /\ SubSeq(startOrder', 1, Len(startOrder)) = startOrder
           /\ Cardinality(started) <= 1
           /\ Cardinality(completed) <= 1
           /\ processing' = processing + Cardinality(started)
                                       - Cardinality(completed)
           /\ \A id \in completed : Len(settles'[id]) = 1
           /\ ticks' = ticks + Cardinality(completed) - tickRun]_vars

\* C17 witness: one operation completed on its own, one threw on being
\* started, one request was evicted, and an operation is still running.
CounterAfterEveryKindOfStep ==
    /\ running # {}
    /\ processing < MAX_CONCURRENT
    /\ \E done, thrown, evicted \in Ids :
          /\ produced[done] \in AsyncOutcomes
          /\ produced[thrown] = "thrown"
          /\ settles[evicted] = <<QueueOverflow>>

\* C18: whenever the pending list is not empty, processing plus the number
\* of deferred processQueue() callbacks still scheduled is at least
\* MAX_CONCURRENT; so with no deferred callback outstanding a non-empty
\* list means that processing equals MAX_CONCURRENT.
NoStrandedWork ==
    /\ queue # <<>> => processing + ticks >= MAX_CONCURRENT
    /\ (queue # <<>> /\ ticks = 0) => processing = MAX_CONCURRENT

\* C18 witness: requests are pending and every slot is free, each of the
\* free slots with exactly one deferred callback scheduled for it.
PendingCoveredByTicksOnly ==
    /\ queue # <<>>
    /\ processing = 0
    /\ ticks = MAX_CONCURRENT

\* C19 as stated: a request is rejected with QueueOverflow only by a step
\* taken in a state where processing equals MAX_CONCURRENT.
EvictedOnlyAtCeiling ==
    [][NewlyOverflowed # {} => processing = MAX_CONCURRENT]_vars

\* C19, amended: a request is rejected with QueueOverflow only by a call of
\* enqueue() that finds MAX_QUEUE_SIZE pending entries, in a state where
\* processing plus the deferred processQueue() callbacks still scheduled is
\* at least MAX_CONCURRENT: a slot can be free then, but only one whose
\* deferred callback has not run yet.
EvictedOnlyWhenSlotsSpokenFor ==
    [][NewlyOverflowed # {} =>
          /\ OverflowingSubmit
          /\ NewlyOverflowed = {Head(queue).id}
          /\ processing + ticks >= MAX_CONCURRENT
          /\ ticks = 0 => processing = MAX_CONCURRENT]_vars

\* C19 witness: after two completions and before either deferred callback,
\* a submission found the list full; it evicted the head and started the
\* next entry, and a slot is still free.
EvictedBetweenCompletionAndTick ==
    /\ nextId > 1
    /\ PendingIds(queue) = {nextId - 1}
    /\ startOrder # <<>>
    /\ \E victim \in Ids :
          /\ settles[victim] = <<QueueOverflow>>
          /\ startOrder[Len(startOrder)] = victim + 1
          /\ victim + 1 \in running
    /\ processing < MAX_CONCURRENT
    /\ processing + ticks > MAX_CONCURRENT

\* C20: a call of likeContentItem() that resolves to null has added no
\* like for (contentItemId, userIdentifier), whatever the already-liked
\* checks, the add_like RPC and the fetch answered in each round.
NullMeansNothingAdded ==
    like.result = "null" => ~like.added

\* A step in which an attempt of the retry loop fails: the add_like RPC
\* answers an error that is no duplicate-key error, or the fetch fails.
AttemptFails ==
    /\ like.pc \in {"rpc", "fetch"}
    /\ like'.pc \in {"delay", "done"}
    /\ like'.result \in {"none", "error"}

\* A step in which the add_like RPC answers a duplicate-key error.
DuplicateKeyAnswer ==
    /\ like.pc = "rpc"
    /\ like'.pc = "done"
    /\ like'.result = "null"

\* C21: a started call of the like operation ends, and makes at most
\* maxRetries calls of the add_like RPC, at most one per round.  A failed
\* attempt counts one retry and, below maxRetries, is followed by another
\* round; a duplicate-key error ends the call with null at once; the error
\* is thrown exactly when the attempt that fails is number maxRetries.
LikeCallTerminatesWithinRetries ==
    /\ [](/\ like.rpcCalls <= maxRetries
          /\ like.retryCount <= maxRetries
          /\ like.rpcCalls <= like.retryCount + 1
          /\ like.result = "error" =>
                like.retryCount = maxRetries /\ like.rpcCalls = maxRetries
          /\ like.pc \in {"doubleCheck", "rpc", "fetch", "delay"} =>
                like.retryCount < maxRetries)
    /\ [][/\ AttemptFails =>
               /\ like'.retryCount = like.retryCount + 1
               /\ like'.pc = "done" <=> like'.retryCount = maxRetries
               /\ like'.pc = "done" <=> like'.result = "error"
          /\ DuplicateKeyAnswer => like'.rpcCalls = like.rpcCalls + 1
          /\ like.pc \in {"done", "shown"} =>
               /\ like'.rpcCalls = like.rpcCalls
               /\ like'.result = like.result
               /\ like'.pc \in {"done", "shown"}]_vars
    /\ (like.pc = "alreadyLiked") ~> (like.pc = "done")

\* C21 witness: three attempts failed, each after its own add_like call,
\* and the call threw the error to the caller.
ThrownAfterThirdAttempt ==
    /\ like.pc = "done"
    /\ like.result = "error"
    /\ like.retryCount = 3
    /\ like.rpcCalls = 3

============================================================================
